---- MODULE Spec2Model ----
(***************************************************************************)
(* Model of src/steps/sync.rs: the sleep systems that SyncPlugin adds to   *)
(* the physics schedule (activate_sleeping, deactivate_sleeping,           *)
(* gravity_deactivate_sleeping, chained in this order).                    *)
(*                                                                         *)
(* Scalars are modelled as integers (times in units of one clock grain,    *)
(* velocities on an integer grid, 2-D feature: LinVel is a pair, AngVel a  *)
(* scalar).  Structural changes issued through Commands are deferred: each *)
(* system owns a command queue that is applied to the world when the       *)
(* schedule's buffers are applied, after the last system of the run.       *)
(* Changed<T> is a change-detection flag: "written since the observing     *)
(* system last ran", whatever the value written.                           *)
(*                                                                         *)
(* Spec is the sleep tracker alone; SpecSync is the whole plugin, with     *)
(* sync_transforms running at any point of a schedule run (it is not       *)
(* ordered against the chain).  Pos is on a grid twice as fine as the one  *)
(* the Transform's f32 fields can hold.                                    *)
(***************************************************************************)
EXTENDS Integers, Sequences, FiniteSets, TLC

\* ---------------------------------------------------------------- bounds
MaxDeactivationTime == 2
MaxDt == 2
MaxWrites == 1

\* ---------------------------------------------------------------- domains
Entity == {1, 2}
EntityOrder == <<1, 2>>

RigidBody == {"Dynamic", "Kinematic", "Static"}

\* the components the activity filter watches
ActivityComponents == {"LinVel", "AngVel", "ExternalForce", "ExternalTorque"}

\* values the upstream producer / user code may write
LinVelValues == {<<0, 0>>, <<-1, 0>>, <<1, 1>>}
AngVelValues == {0, -2}
LinearThresholdValues == {-1, 1}
AngularThresholdValues == {-1, 1, 2}
DeactivationTimeValues == -1 .. MaxDeactivationTime
DtValues == 0 .. MaxDt

PosValues == {<<0, 0>>, <<6, 8>>, <<3, -1>>}
\* Rot, in degrees
RotValues == {0, 90}

LinVelZERO == <<0, 0>>
AngVelZERO == 0

\* (activate_sleeping, deactivate_sleeping, gravity_deactivate_sleeping).chain()
Systems == <<"activate_sleeping", "deactivate_sleeping", "gravity_deactivate_sleeping">>

VARIABLES
    rb,                \* Entity -> RigidBody
    sleepingDisabled,  \* Entity -> BOOLEAN : SleepingDisabled marker present
    linVel,            \* Entity -> LinVel
    angVel,            \* Entity -> AngVel
    timeSleeping,      \* Entity -> TimeSleeping.0
    sleeping,          \* Entity -> BOOLEAN : Sleeping marker present in the world
    changed,           \* Entity -> components written since deactivate_sleeping last ran
    gravityChanged,    \* Gravity written since gravity_deactivate_sleeping last ran
    commands,          \* system name -> its queue of deferred commands
    deactivation_time, \* Res<DeactivationTime>
    sleep_threshold,   \* Res<SleepingThreshold>: [linear, angular]
    dt,                \* Res<DeltaTime>
    pc,                \* next step of the schedule run
    writes,            \* external writes made since the last run
    pos,               \* Entity -> Pos
    rot,               \* Entity -> Rot
    transform,         \* Entity -> Transform: [translation, rotation, scale]
    syncRan            \* sync_transforms has run in the current schedule run

vars == <<rb, sleepingDisabled, linVel, angVel, timeSleeping, sleeping, changed,
          gravityChanged, commands, deactivation_time, sleep_threshold, dt, pc, writes,
          pos, rot, transform, syncRan>>

pose == <<pos, rot, transform, syncRan>>

config == <<rb, sleepingDisabled, deactivation_time, sleep_threshold, dt>>

\* ---------------------------------------------------------------- helpers
Abs(x) == IF x < 0 THEN -x ELSE x

\* Vector::length_squared
LengthSquared(v) == v[1] * v[1] + v[2] * v[2]

\* ang_vel.powi(2)
Powi2(x) == x * x

\* threshold * threshold.abs(): keeps the sign of the threshold
ThresholdSq(t) == t * Abs(t)

\* a chain that runs the gravity sweep before the activity sweep
AfterSwapped(s) ==
    IF s = Systems[1] THEN Systems[3]
    ELSE IF s = Systems[3] THEN Systems[2]
    ELSE IF s = Systems[2] THEN "apply_buffers"
    ELSE Systems[1]

\* a chain that runs the activity sweep before the promotion sweep
AfterDemoteFirst(s) ==
    IF s = Systems[2] THEN Systems[1]
    ELSE IF s = Systems[1] THEN Systems[3]
    ELSE IF s = Systems[3] THEN "apply_buffers"
    ELSE Systems[2]

\* the step that follows step s of a schedule run: the chain, then the buffers
After(s) ==
    IF s = Systems[1] THEN Systems[2]
    ELSE IF s = Systems[2] THEN Systems[3]
    ELSE IF s = Systems[3] THEN "apply_buffers"
    ELSE Systems[1]

InQueue(q, c) == \E i \in 1 .. Len(q) : q[i] = c

\* the commands a sweep queues, commands.entity(e).insert(Sleeping) as <<"insert", e>>
\* and commands.entity(e).remove::<Sleeping>() as <<"remove", e>>: one per matching
\* entity, in visiting order
Sweep(matching, kind) ==
    LET sel == SelectSeq(EntityOrder, LAMBDA e : e \in matching)
    IN  [i \in 1 .. Len(sel) |-> <<kind, sel[i]>>]

\* ---------------------------------------------------------------- activate_sleeping
\* Query filter (Without<Sleeping>, Without<SleepingDisabled>)
\* the filter without Without<Sleeping>
ActivateFilterNoSleepingTest(e) == ~sleepingDisabled[e]

ActivateFilter(e) == ~sleeping[e] /\ ~sleepingDisabled[e]

\* the is_dynamic test left out
IsDynamicAlways(e) == TRUE

IsDynamic(e) == rb[e] = "Dynamic"

\* "return" in place of "continue": the sweep ends at the first non-Dynamic body
VisitedUntilNotDynamic(e) ==
    /\ ActivateFilter(e) /\ IsDynamic(e)
    /\ \A f \in Entity : (f < e /\ ActivateFilter(f)) => IsDynamic(f)

\* the bodies the loop body acts on
Visited(e) == ActivateFilter(e) /\ IsDynamic(e)

\* "<=" in place of "<"
BelowOrAtThreshold(e) ==
    /\ LengthSquared(linVel[e]) <= ThresholdSq(sleep_threshold.linear)
    /\ Powi2(angVel[e]) <= ThresholdSq(sleep_threshold.angular)

BelowThreshold(e) ==
    /\ LengthSquared(linVel[e]) < ThresholdSq(sleep_threshold.linear)
    /\ Powi2(angVel[e]) < ThresholdSq(sleep_threshold.angular)

\* "=" in place of "+="
NewTimeSleepingAssigned(e) ==
    IF BelowThreshold(e) THEN dt ELSE 0

\* a gradual decay in place of the reset
NewTimeSleepingDecayed(e) ==
    IF BelowThreshold(e) THEN timeSleeping[e] + dt ELSE timeSleeping[e] - dt

NewTimeSleeping(e) ==
    IF BelowThreshold(e) THEN timeSleeping[e] + dt ELSE 0

\* ">=" in place of ">"
StillLongEnoughAtEquality(e) == NewTimeSleeping(e) >= deactivation_time

StillLongEnough(e) == NewTimeSleeping(e) > deactivation_time

Promoted(e) == Visited(e) /\ StillLongEnough(e)

ActivateSleeping ==
    /\ pc = "activate_sleeping"
    /\ timeSleeping' = [e \in Entity |->
            IF Visited(e) THEN NewTimeSleeping(e) ELSE timeSleeping[e]]
    /\ linVel' = [e \in Entity |-> IF Promoted(e) THEN LinVelZERO ELSE linVel[e]]
    /\ angVel' = [e \in Entity |-> IF Promoted(e) THEN AngVelZERO ELSE angVel[e]]
    /\ changed' = [e \in Entity |->
            IF Promoted(e) THEN changed[e] \cup {"LinVel", "AngVel"} ELSE changed[e]]
    /\ commands' = [commands EXCEPT
            !["activate_sleeping"] = @ \o Sweep({e \in Entity : Promoted(e)}, "insert")]
    /\ pc' = After("activate_sleeping")
    /\ UNCHANGED <<pose, config, sleeping, gravityChanged, writes>>

\* ---------------------------------------------------------------- deactivate_sleeping
\* With<Sleeping>: the marker as the world holds it when the system runs
\* commands applied as soon as they are issued
WithSleepingImmediate(e) ==
    sleeping[e] \/ InQueue(commands["activate_sleeping"], <<"insert", e>>)

WithSleeping(e) == sleeping[e]

\* Or<(Changed<LinVel>, Changed<AngVel>, Changed<ExternalForce>, Changed<ExternalTorque>)>
\* the filter without Changed<ExternalForce>
BodyActivatedFilterNoForce(e) == changed[e] \cap {"LinVel", "AngVel", "ExternalTorque"} # {}

BodyActivatedFilter(e) == changed[e] \cap ActivityComponents # {}

Activated(e) == WithSleeping(e) /\ BodyActivatedFilter(e)

DeactivateSleeping ==
    /\ pc = "deactivate_sleeping"
    /\ timeSleeping' = [e \in Entity |-> IF Activated(e) THEN 0 ELSE timeSleeping[e]]
    /\ commands' = [commands EXCEPT
            !["deactivate_sleeping"] = @ \o Sweep({e \in Entity : Activated(e)}, "remove")]
    \* the system has run: nothing written before now is "changed" at its next run
    /\ changed' = [e \in Entity |-> {}]
    /\ pc' = After("deactivate_sleeping")
    /\ UNCHANGED <<pose, config, linVel, angVel, sleeping, gravityChanged, writes>>

\* ---------------------------------------------------------------- gravity_deactivate_sleeping
\* the is_changed test inverted
GravityWokenInverted(e) == ~gravityChanged /\ WithSleeping(e)

GravityWoken(e) == gravityChanged /\ WithSleeping(e)

GravityDeactivateSleeping ==
    /\ pc = "gravity_deactivate_sleeping"
    /\ timeSleeping' = [e \in Entity |-> IF GravityWoken(e) THEN 0 ELSE timeSleeping[e]]
    /\ commands' = [commands EXCEPT
            !["gravity_deactivate_sleeping"] =
                @ \o Sweep({e \in Entity : GravityWoken(e)}, "remove")]
    /\ gravityChanged' = FALSE
    /\ pc' = After("gravity_deactivate_sleeping")
    /\ UNCHANGED <<pose, config, linVel, angVel, sleeping, changed, writes>>

\* ---------------------------------------------------------------- deferred commands
RECURSIVE ApplyQueue(_, _)
ApplyQueue(q, s) ==
    IF q = <<>> THEN s
    ELSE ApplyQueue(Tail(q), [s EXCEPT ![Head(q)[2]] = (Head(q)[1] = "insert")])

\* the queues are applied in the order of the systems that filled them
ApplyAll(cmds, s) ==
    ApplyQueue(cmds[Systems[1]] \o cmds[Systems[2]] \o cmds[Systems[3]], s)

NoCommands == [s \in {Systems[i] : i \in 1 .. Len(Systems)} |-> <<>>]

ApplyBuffers ==
    /\ pc = "apply_buffers"
    /\ sleeping' = ApplyAll(commands, sleeping)
    /\ commands' = NoCommands
    /\ writes' = 0
    /\ pc' = After("apply_buffers")
    /\ UNCHANGED <<pose, config, linVel, angVel, timeSleeping, changed, gravityChanged>>

\* ---------------------------------------------------------------- sync_transforms (2d)
\* Transform::IDENTITY, with 1.0 written as 10
TransformIDENTITY ==
    [translation |-> <<0, 0, 0>>, rotation |-> <<0, 0, 0, 10>>, scale |-> <<10, 10, 10>>]

\* Query<(&mut Transform, &Pos, &Rot)>: no filter on the sleep markers
\* a query that leaves sleeping bodies out
SyncQueryAwake(e) == ~sleeping[e]

\* a query that leaves bodies at rest out
SyncQueryMoving(e) == linVel[e] # LinVelZERO \/ angVel[e] # AngVelZERO

SyncQuery(e) == TRUE

\* pos.extend(0.0)
Extend(p, z) == <<p[1], p[2], z>>

\* a value in the consumer's f32 precision: the nearest point of the coarser
\* grid, ties to the even one
AsF32(x) ==
    IF x % 2 = 0 THEN x
    ELSE IF (x + 1) % 4 = 0 THEN x + 1
    ELSE x - 1

AsVec3F32(v) == <<AsF32(v[1]), AsF32(v[2]), AsF32(v[3])>>

AsQuatF32(q) == <<AsF32(q[1]), AsF32(q[2]), AsF32(q[3]), AsF32(q[4])>>

\* the rotation by r about the out-of-plane axis: (0, 0, sin(r/2), cos(r/2)),
\* with 1.0 written as 10
QuaternionFromRot(r) ==
    CASE r = 0 -> <<0, 0, 0, 10>>
      [] r = 90 -> <<0, 0, 7, 7>>
      [] r = 180 -> <<0, 0, 10, 0>>
      [] OTHER -> <<0, 0, 7, -7>>

\* "+=" in place of "=" on the translation
SyncedTransformAccumulated(t, p, r) ==
    [t EXCEPT !.translation = <<t.translation[1] + AsF32(p[1]),
                                t.translation[2] + AsF32(p[2]), 0>>,
              !.rotation = AsQuatF32(QuaternionFromRot(r))]

\* the loop body: translation and rotation overwritten, the rest of t kept
SyncedTransform(t, p, r) ==
    [t EXCEPT !.translation = AsVec3F32(Extend(p, 0)),
              !.rotation = AsQuatF32(QuaternionFromRot(r))]

SyncTransforms ==
    /\ ~syncRan
    /\ transform' = [e \in Entity |->
            IF SyncQuery(e) THEN SyncedTransform(transform[e], pos[e], rot[e])
            ELSE transform[e]]
    /\ syncRan' = TRUE
    /\ UNCHANGED <<config, linVel, angVel, timeSleeping, sleeping, changed, gravityChanged,
                   commands, pc, writes, pos, rot>>

\* the end of a schedule run of the whole plugin: every system has run
EndOfRun ==
    /\ syncRan
    /\ pc = "apply_buffers"
    /\ sleeping' = ApplyAll(commands, sleeping)
    /\ commands' = NoCommands
    /\ writes' = 0
    /\ pc' = After("apply_buffers")
    /\ syncRan' = FALSE
    /\ UNCHANGED <<config, linVel, angVel, timeSleeping, changed, gravityChanged,
                   pos, rot, transform>>

\* ---------------------------------------------------------------- outside the tracker
\* Writes by the upstream producer or user code; they are complete before the
\* run's sweeps begin.
BetweenRuns == pc = "activate_sleeping" /\ ~syncRan /\ writes < MaxWrites

WriteLinVel(e, v) ==
    /\ BetweenRuns
    /\ linVel' = [linVel EXCEPT ![e] = v]
    /\ changed' = [changed EXCEPT ![e] = @ \cup {"LinVel"}]
    /\ writes' = writes + 1
    /\ UNCHANGED <<pose, config, angVel, timeSleeping, sleeping, gravityChanged, commands, pc>>

WriteAngVel(e, w) ==
    /\ BetweenRuns
    /\ angVel' = [angVel EXCEPT ![e] = w]
    /\ changed' = [changed EXCEPT ![e] = @ \cup {"AngVel"}]
    /\ writes' = writes + 1
    /\ UNCHANGED <<pose, config, linVel, timeSleeping, sleeping, gravityChanged, commands, pc>>

\* ExternalForce / ExternalTorque: only the fact of the write is observed
WriteExternal(e, c) ==
    /\ BetweenRuns
    /\ changed' = [changed EXCEPT ![e] = @ \cup {c}]
    /\ writes' = writes + 1
    /\ UNCHANGED <<pose, config, linVel, angVel, timeSleeping, sleeping, gravityChanged,
                   commands, pc>>

WriteGravity ==
    /\ BetweenRuns
    /\ gravityChanged' = TRUE
    /\ writes' = writes + 1
    /\ UNCHANGED <<pose, config, linVel, angVel, timeSleeping, sleeping, changed, commands, pc>>

\* ---------------------------------------------------------------- specification
Init ==
    /\ rb \in [Entity -> RigidBody]
    /\ sleepingDisabled \in [Entity -> BOOLEAN]
    \* the scene holds an arbitrary body and one that is able to sleep
    /\ rb[2] = "Dynamic" /\ ~sleepingDisabled[2]
    \* bodies are created at rest; the producer writes their velocities later
    /\ linVel = [e \in Entity |-> LinVelZERO]
    /\ angVel = [e \in Entity |-> AngVelZERO]
    /\ timeSleeping = [e \in Entity |-> 0]
    /\ sleeping = [e \in Entity |-> FALSE]
    \* a system that has not run yet sees every component as changed
    /\ changed = [e \in Entity |-> ActivityComponents]
    /\ gravityChanged = TRUE
    /\ commands = NoCommands
    /\ deactivation_time \in DeactivationTimeValues
    /\ sleep_threshold \in [linear : LinearThresholdValues, angular : AngularThresholdValues]
    /\ dt \in DtValues
    /\ pc = "activate_sleeping"
    /\ writes = 0
    /\ pos = [e \in Entity |-> <<0, 0>>]
    /\ rot = [e \in Entity |-> 0]
    /\ transform = [e \in Entity |-> TransformIDENTITY]
    /\ syncRan = FALSE

Next ==
    \/ ActivateSleeping
    \/ DeactivateSleeping
    \/ GravityDeactivateSleeping
    \/ ApplyBuffers
    \/ \E e \in Entity, v \in LinVelValues : WriteLinVel(e, v)
    \/ \E e \in Entity, w \in AngVelValues : WriteAngVel(e, w)
    \/ \E e \in Entity, c \in {"ExternalForce", "ExternalTorque"} : WriteExternal(e, c)
    \/ WriteGravity

Spec == Init /\ [][Next]_vars

\* ---------------------------------------------------------------- the whole plugin
WritePos(e, p) ==
    /\ BetweenRuns
    /\ pos' = [pos EXCEPT ![e] = p]
    /\ writes' = writes + 1
    /\ UNCHANGED <<config, linVel, angVel, timeSleeping, sleeping, changed, gravityChanged,
                   commands, pc, rot, transform, syncRan>>

WriteRot(e, r) ==
    /\ BetweenRuns
    /\ rot' = [rot EXCEPT ![e] = r]
    /\ writes' = writes + 1
    /\ UNCHANGED <<config, linVel, angVel, timeSleeping, sleeping, changed, gravityChanged,
                   commands, pc, pos, transform, syncRan>>

\* one configuration of the tracker, every kind of body beside the one able to
\* sleep; of the outside writes, the ones to the pose and to the linear velocity
InitSync ==
    /\ Init
    /\ deactivation_time = 1
    /\ dt = 1
    /\ sleep_threshold = [linear |-> 1, angular |-> 1]

NextSync ==
    \/ SyncTransforms
    \/ ActivateSleeping
    \/ DeactivateSleeping
    \/ GravityDeactivateSleeping
    \/ EndOfRun
    \/ \E e \in Entity, v \in LinVelValues : WriteLinVel(e, v)
    \/ \E e \in Entity, p \in PosValues : WritePos(e, p)
    \/ \E e \in Entity, r \in RotValues : WriteRot(e, r)

SpecSync == InitSync /\ [][NextSync]_vars

TypeOK ==
    /\ rb \in [Entity -> RigidBody]
    /\ sleeping \in [Entity -> BOOLEAN]
    /\ timeSleeping \in [Entity -> Int]
    /\ pc \in {"activate_sleeping", "deactivate_sleeping", "gravity_deactivate_sleeping",
               "apply_buffers"}
    /\ pos \in [Entity -> PosValues]
    /\ rot \in [Entity -> RotValues]
    /\ syncRan \in BOOLEAN

\* ---------------------------------------------------------------- properties
\* steps of a schedule run, as seen from outside the systems
StepOf(s) == pc = s /\ pc' # pc

Eligible(e) == rb[e] = "Dynamic" /\ ~sleeping[e] /\ ~sleepingDisabled[e]

AtRest(e) == linVel[e] = <<0, 0>> /\ angVel[e] = 0

PromotionQueued(e) == InQueue(commands["activate_sleeping"], <<"insert", e>>)

\* C1: the Sleeping marker, present in the world or queued for insertion, is only
\* ever on a Dynamic body that does not carry SleepingDisabled.
C1_SleepingExclusivity ==
    \A e \in Entity :
        (sleeping[e] \/ PromotionQueued(e)) =>
            (rb[e] = "Dynamic" /\ ~sleepingDisabled[e])

\* a body that cannot sleep stayed at rest through the run in which the other
\* body was put to sleep
C1_Witness ==
    /\ pc = "activate_sleeping"
    /\ sleeping[2]
    /\ rb[1] # "Dynamic" \/ sleepingDisabled[1]
    /\ AtRest(1)
    /\ ~sleeping[1]

\* C2: activate_sleeping queues Sleeping for an eligible body exactly when the
\* accumulated TimeSleeping is strictly greater than DeactivationTime, and in
\* that same step LinVel and AngVel are set to zero; a body on which the
\* marker appears has zero velocities and TimeSleeping > DeactivationTime.
C2_PromotionAtStrictExcess ==
    [][ /\ StepOf("activate_sleeping") =>
            \A e \in Entity : Eligible(e) =>
                /\ InQueue(commands'["activate_sleeping"], <<"insert", e>>)
                       <=> (timeSleeping'[e] > deactivation_time)
                /\ (timeSleeping'[e] > deactivation_time) =>
                       (linVel'[e] = <<0, 0>> /\ angVel'[e] = 0)
        /\ StepOf("apply_buffers") =>
            \A e \in Entity : (~sleeping[e] /\ sleeping'[e]) =>
                /\ timeSleeping'[e] > deactivation_time
                /\ linVel'[e] = <<0, 0>> /\ angVel'[e] = 0
      ]_vars

\* promoted in the run after the one that left TimeSleeping equal to DeactivationTime
C2_Witness ==
    /\ pc = "deactivate_sleeping"
    /\ PromotionQueued(2)
    /\ dt > 0 /\ deactivation_time > 0
    /\ timeSleeping[2] - dt = deactivation_time
    /\ AtRest(2)

\* C3: a sleeping body with a write to LinVel, AngVel, ExternalForce or
\* ExternalTorque pending when deactivate_sleeping runs has TimeSleeping reset
\* to 0 and the removal of Sleeping queued by that step, and the marker is
\* gone (with TimeSleeping still 0) when the buffers of that run are applied.
C3_WakeOnWrite ==
    [][ /\ StepOf("deactivate_sleeping") =>
            \A e \in Entity :
                (sleeping[e] /\ \E c \in ActivityComponents : c \in changed[e]) =>
                    /\ timeSleeping'[e] = 0
                    /\ InQueue(commands'["deactivate_sleeping"], <<"remove", e>>)
        /\ StepOf("apply_buffers") =>
            \A e \in Entity :
                InQueue(commands["deactivate_sleeping"], <<"remove", e>>) =>
                    (~sleeping'[e] /\ timeSleeping'[e] = 0)
      ]_vars

\* deactivate_sleeping has just woken a sleeping body whose velocities are zero
C3_Witness ==
    /\ pc = "gravity_deactivate_sleeping"
    /\ \E e \in Entity :
        /\ sleeping[e]
        /\ AtRest(e)
        /\ InQueue(commands["deactivate_sleeping"], <<"remove", e>>)
        /\ timeSleeping[e] = 0

\* C4 as claimed: at the end of a run in which Gravity changed no body is
\* Sleeping, the bodies promoted earlier in that run included (stated for the
\* configurations with a non-negative DeactivationTime and positive thresholds).
C4_Original_NoSleeperAfterGravityChange ==
    [][ (/\ StepOf("gravity_deactivate_sleeping") /\ gravityChanged
         /\ deactivation_time >= 0
         /\ sleep_threshold.linear > 0 /\ sleep_threshold.angular > 0) =>
            \A e \in Entity : ~ApplyAll(commands', sleeping')[e]
      ]_vars

\* C4 amended: when Gravity changed, every body that carries Sleeping when
\* gravity_deactivate_sleeping runs has TimeSleeping reset to 0 and its removal
\* queued, whatever its velocities, and is without Sleeping when the buffers
\* of that run are applied.
C4_GravityWakesSleepers ==
    [][ /\ (StepOf("gravity_deactivate_sleeping") /\ gravityChanged) =>
            \A e \in Entity : sleeping[e] =>
                /\ timeSleeping'[e] = 0
                /\ InQueue(commands'["gravity_deactivate_sleeping"], <<"remove", e>>)
        /\ StepOf("apply_buffers") =>
            \A e \in Entity :
                InQueue(commands["gravity_deactivate_sleeping"], <<"remove", e>>) =>
                    (~sleeping'[e] /\ timeSleeping'[e] = 0)
      ]_vars

\* a sleeping body woken by the gravity sweep alone
C4_Witness ==
    /\ pc = "apply_buffers"
    /\ commands["deactivate_sleeping"] = <<>>
    /\ \E e \in Entity :
        /\ sleeping[e]
        /\ InQueue(commands["gravity_deactivate_sleeping"], <<"remove", e>>)

\* C5: a body promoted by activate_sleeping is not touched by the two demotion
\* sweeps of the same run (no removal queued, TimeSleeping kept), although the
\* promotion wrote LinVel and AngVel, and it carries Sleeping once the buffers
\* of that run are applied.
C5_PromotionMonotonic ==
    [][ \A e \in Entity : PromotionQueued(e) =>
            /\ ~InQueue(commands'["deactivate_sleeping"], <<"remove", e>>)
            /\ ~InQueue(commands'["gravity_deactivate_sleeping"], <<"remove", e>>)
            /\ timeSleeping'[e] = timeSleeping[e]
            /\ StepOf("apply_buffers") => sleeping'[e]
      ]_vars

\* a body promoted in a run whose gravity sweep woke another body
C5_Witness ==
    /\ pc = "apply_buffers"
    /\ commands["gravity_deactivate_sleeping"] # <<>>
    /\ \E e \in Entity : PromotionQueued(e) /\ ~sleeping[e]

\* the stillness test of activate_sleeping, written out on the state
LinSpeedSq(e) == linVel[e][1] * linVel[e][1] + linVel[e][2] * linVel[e][2]
AngSpeedSq(e) == angVel[e] * angVel[e]
SignedSquare(t) == IF t < 0 THEN -(t * t) ELSE t * t
Still(e) ==
    /\ LinSpeedSq(e) < SignedSquare(sleep_threshold.linear)
    /\ AngSpeedSq(e) < SignedSquare(sleep_threshold.angular)

\* C6 as claimed: with a negative linear or angular threshold no body ever
\* acquires Sleeping, whatever DeactivationTime is.
C6_NegativeThresholdDisablesSleep ==
    (sleep_threshold.linear < 0 \/ sleep_threshold.angular < 0) =>
        \A e \in Entity : ~sleeping[e]

\* C7 as claimed: an eligible body with zero LinVel and AngVel gains exactly
\* DeltaTime of TimeSleeping in every run of activate_sleeping (stated for the
\* configurations with a non-negative DeactivationTime).
C7_Original_RestAccumulates ==
    [][ (StepOf("activate_sleeping") /\ deactivation_time >= 0) =>
            \A e \in Entity : (Eligible(e) /\ AtRest(e)) =>
                timeSleeping'[e] = timeSleeping[e] + dt
      ]_vars

\* C7 amended: with both thresholds positive, an eligible body with zero LinVel
\* and AngVel gains exactly DeltaTime of TimeSleeping in every run of
\* activate_sleeping, the run that promotes it included.
C7_RestAccumulatesUnderPositiveThresholds ==
    [][ (StepOf("activate_sleeping")
            /\ sleep_threshold.linear > 0 /\ sleep_threshold.angular > 0) =>
            \A e \in Entity : (Eligible(e) /\ AtRest(e)) =>
                timeSleeping'[e] = timeSleeping[e] + dt
      ]_vars

\* two runs at rest have accumulated 2 * DeltaTime without promoting the body
C7_Witness ==
    /\ pc = "deactivate_sleeping"
    /\ sleep_threshold.linear > 0 /\ sleep_threshold.angular > 0
    /\ dt > 0
    /\ Eligible(2) /\ AtRest(2)
    /\ timeSleeping[2] = 2 * dt
    /\ ~PromotionQueued(2)

\* C8: for every body activate_sleeping acts on, TimeSleeping grows by DeltaTime
\* exactly when both squared speeds are strictly below the signed squares of
\* their thresholds, and is 0 after the step otherwise, whatever it was.
C8_AccumulateOrReset ==
    [][ StepOf("activate_sleeping") =>
            \A e \in Entity : Eligible(e) =>
                timeSleeping'[e] = IF Still(e) THEN timeSleeping[e] + dt ELSE 0
      ]_vars

\* a linear speed equal to the threshold has reset TimeSleeping
C8_Witness ==
    /\ pc = "deactivate_sleeping"
    /\ Eligible(2)
    /\ sleep_threshold.linear > 0 /\ sleep_threshold.angular > 0
    /\ LinSpeedSq(2) = SignedSquare(sleep_threshold.linear)
    /\ AngSpeedSq(2) < SignedSquare(sleep_threshold.angular)
    /\ timeSleeping[2] = 0
    /\ "LinVel" \in changed[2]

\* C9: TimeSleeping is never negative, and it is 0 right after the step in
\* which activate_sleeping found the body not still, or deactivate_sleeping or
\* gravity_deactivate_sleeping woke it.
C9_TimeSleepingNonNegative ==
    /\ [](\A e \in Entity : timeSleeping[e] >= 0)
    /\ [][ /\ StepOf("activate_sleeping") =>
               \A e \in Entity : (Eligible(e) /\ ~Still(e)) => timeSleeping'[e] = 0
           /\ StepOf("deactivate_sleeping") =>
               \A e \in Entity :
                   InQueue(commands'["deactivate_sleeping"], <<"remove", e>>) =>
                       timeSleeping'[e] = 0
           /\ StepOf("gravity_deactivate_sleeping") =>
               \A e \in Entity :
                   InQueue(commands'["gravity_deactivate_sleeping"], <<"remove", e>>) =>
                       timeSleeping'[e] = 0
         ]_vars

\* a moving body whose accumulated time has been reset while the other body,
\* at rest, kept accumulating
C9_Witness ==
    /\ pc = "deactivate_sleeping"
    /\ dt > 0
    /\ Eligible(1) /\ ~Still(1) /\ timeSleeping[1] = 0
    /\ Eligible(2) /\ Still(2) /\ timeSleeping[2] > dt

\* C10: every run of the schedule takes the three sweeps in the order
\* activate_sleeping, deactivate_sleeping, gravity_deactivate_sleeping, once
\* each, before the buffers are applied and the next run begins; a sweep only
\* adds to its own command queue.
C10_FixedOrder ==
    [][ /\ StepOf("activate_sleeping") => pc' = "deactivate_sleeping"
        /\ StepOf("deactivate_sleeping") => pc' = "gravity_deactivate_sleeping"
        /\ StepOf("gravity_deactivate_sleeping") => pc' = "apply_buffers"
        /\ StepOf("apply_buffers") => pc' = "activate_sleeping"
        /\ \A s \in DOMAIN commands :
               (pc' # pc /\ pc # s /\ pc # "apply_buffers") => commands'[s] = commands[s]
      ]_vars

\* a run in which the promotion sweep and the activity sweep both acted
C10_Witness ==
    /\ pc = "apply_buffers"
    /\ commands["activate_sleeping"] # <<>>
    /\ commands["deactivate_sleeping"] # <<>>
    /\ commands["gravity_deactivate_sleeping"] = <<>>

RemovalQueued(e) ==
    \/ InQueue(commands["deactivate_sleeping"], <<"remove", e>>)
    \/ InQueue(commands["gravity_deactivate_sleeping"], <<"remove", e>>)

\* C13: with DeactivationTime = 0, DeltaTime > 0 and positive thresholds,
\* activate_sleeping promotes every eligible body it finds still, in the first
\* run that evaluates it, and promotes no body it finds not still (its
\* TimeSleeping is 0, which is not greater than 0).
C13_ZeroDeactivationTime ==
    [][ /\ (/\ StepOf("activate_sleeping")
            /\ deactivation_time = 0 /\ dt > 0
            /\ sleep_threshold.linear > 0 /\ sleep_threshold.angular > 0) =>
            \A e \in Entity : Eligible(e) =>
                /\ Still(e) =>
                       /\ InQueue(commands'["activate_sleeping"], <<"insert", e>>)
                       /\ timeSleeping'[e] = dt
                /\ ~Still(e) =>
                       /\ ~InQueue(commands'["activate_sleeping"], <<"insert", e>>)
                       /\ timeSleeping'[e] = 0
        /\ (StepOf("apply_buffers") /\ deactivation_time = 0) =>
            \A e \in Entity :
                (~sleeping[e] /\ ~PromotionQueued(e)) => ~sleeping'[e]
      ]_vars

\* one body promoted after a single still run, the other, moving, left awake
C13_Witness ==
    /\ pc = "deactivate_sleeping"
    /\ deactivation_time = 0 /\ dt > 0
    /\ PromotionQueued(2) /\ timeSleeping[2] = dt
    /\ Eligible(1) /\ ~Still(1)
    /\ ~PromotionQueued(1) /\ timeSleeping[1] = 0

\* C14: activate_sleeping leaves TimeSleeping, LinVel, AngVel, the change flags
\* and the Sleeping marker of a body untouched, and queues nothing for it, when
\* the body is not Dynamic, already carries Sleeping, or carries
\* SleepingDisabled, whatever its velocity.
C14_ActivateSkips ==
    [][ StepOf("activate_sleeping") =>
            \A e \in Entity :
                (rb[e] # "Dynamic" \/ sleeping[e] \/ sleepingDisabled[e]) =>
                    /\ timeSleeping'[e] = timeSleeping[e]
                    /\ linVel'[e] = linVel[e]
                    /\ angVel'[e] = angVel[e]
                    /\ changed'[e] = changed[e]
                    /\ sleeping'[e] = sleeping[e]
                    /\ ~InQueue(commands'["activate_sleeping"], <<"insert", e>>)
      ]_vars

\* a sleeping body whose velocity was written has passed activate_sleeping
\* with its velocity and TimeSleeping as they were
C14_Witness ==
    /\ pc = "deactivate_sleeping"
    /\ sleeping[1]
    /\ linVel[1] # <<0, 0>>
    /\ timeSleeping[1] > 0
    /\ "LinVel" \in changed[1]

\* nothing pending that would wake body e
Quiet(e) ==
    /\ changed[e] \cap ActivityComponents = {}
    /\ ~gravityChanged
    /\ ~RemovalQueued(e)

\* C16: a body carries no pending change signal when its Sleeping marker
\* appears (the promotion's own write of LinVel and AngVel was seen by
\* deactivate_sleeping before the marker existed); and a sleeping body with no
\* pending write and no Gravity change keeps Sleeping and its TimeSleeping, and
\* no step of the tracker makes a signal pending for it.
C16_SleepIsStable ==
    [][ /\ StepOf("apply_buffers") =>
            \A e \in Entity : (~sleeping[e] /\ sleeping'[e]) => Quiet(e)'
        /\ \A e \in Entity : (sleeping[e] /\ Quiet(e)) =>
            /\ sleeping'[e]
            /\ timeSleeping'[e] = timeSleeping[e]
            /\ (pc' # pc) => Quiet(e)'
      ]_vars

\* a body that was asleep before this run has passed all three sweeps untouched
C16_Witness ==
    /\ pc = "apply_buffers"
    /\ writes = 0
    /\ commands = NoCommands
    /\ sleeping[2] /\ AtRest(2)
    /\ timeSleeping[2] > deactivation_time

\* C18: between runs, every body that carries Sleeping has TimeSleeping >
\* DeactivationTime; and a body woken in a run is without Sleeping and has
\* TimeSleeping = 0 when the run's buffers are applied.
C18_SleepersAreOverTheDeactivationTime ==
    /\ [](pc = "activate_sleeping" =>
            \A e \in Entity : sleeping[e] => timeSleeping[e] > deactivation_time)
    /\ [][ StepOf("apply_buffers") =>
            \A e \in Entity : RemovalQueued(e) =>
                (~sleeping'[e] /\ timeSleeping'[e] = 0)
         ]_vars

\* one body woken in this run, the other still asleep
C18_Witness ==
    /\ pc = "apply_buffers"
    /\ RemovalQueued(2) /\ timeSleeping[2] = 0
    /\ sleeping[1] /\ ~RemovalQueued(1)
    /\ timeSleeping[1] > deactivation_time

\* the queues another visiting order would have left
Reversed(q) == [i \in 1 .. Len(q) |-> q[Len(q) + 1 - i]]
ReversedQueues == [s \in DOMAIN commands |-> Reversed(commands[s])]

\* C15: in every step of a run, what happens to a body is a function of that
\* body's own fields, change flags and queued commands and of the global
\* configuration only; and applying the queued commands gives the same markers
\* for the opposite visiting order of each sweep.
C15_PerBodySweeps ==
    [][ /\ StepOf("activate_sleeping") =>
            \A e \in Entity :
                LET time == IF Still(e) THEN timeSleeping[e] + dt ELSE 0
                    promote == Eligible(e) /\ time > deactivation_time
                IN  /\ timeSleeping'[e] = IF Eligible(e) THEN time ELSE timeSleeping[e]
                    /\ linVel'[e] = IF promote THEN <<0, 0>> ELSE linVel[e]
                    /\ angVel'[e] = IF promote THEN 0 ELSE angVel[e]
                    /\ InQueue(commands'["activate_sleeping"], <<"insert", e>>) <=> promote
        /\ StepOf("deactivate_sleeping") =>
            \A e \in Entity :
                LET wake == sleeping[e] /\ changed[e] \cap ActivityComponents # {}
                IN  /\ timeSleeping'[e] = IF wake THEN 0 ELSE timeSleeping[e]
                    /\ InQueue(commands'["deactivate_sleeping"], <<"remove", e>>) <=> wake
        /\ StepOf("gravity_deactivate_sleeping") =>
            \A e \in Entity :
                LET wake == sleeping[e] /\ gravityChanged
                IN  /\ timeSleeping'[e] = IF wake THEN 0 ELSE timeSleeping[e]
                    /\ InQueue(commands'["gravity_deactivate_sleeping"], <<"remove", e>>)
                           <=> wake
        /\ StepOf("apply_buffers") =>
            /\ \A e \in Entity :
                   sleeping'[e] = IF PromotionQueued(e) THEN TRUE
                                  ELSE IF RemovalQueued(e) THEN FALSE
                                  ELSE sleeping[e]
            /\ sleeping' = ApplyAll(ReversedQueues, sleeping)
      ]_vars

\* both bodies promoted by the same sweep
C15_Witness ==
    /\ pc = "apply_buffers"
    /\ Len(commands["activate_sleeping"]) = 2
    /\ PromotionQueued(1) /\ PromotionQueued(2)

\* the schedule is run again and again: every step of a run is eventually taken
Fairness ==
    /\ WF_vars(ActivateSleeping)
    /\ WF_vars(DeactivateSleeping)
    /\ WF_vars(GravityDeactivateSleeping)
    /\ WF_vars(ApplyBuffers)

\* the configurations the liveness claim is about: positive thresholds and
\* DeltaTime, the body that is able to sleep beside a Static one
InitLive ==
    /\ Init
    /\ rb[1] = "Static" /\ ~sleepingDisabled[1]
    /\ dt > 0
    /\ sleep_threshold.linear > 0 /\ sleep_threshold.angular > 0

SpecLive == InitLive /\ [][Next]_vars /\ Fairness

StaysStill(e) ==
    /\ rb[e] = "Dynamic" /\ ~sleepingDisabled[e]
    /\ dt > 0
    /\ sleep_threshold.linear > 0 /\ sleep_threshold.angular > 0
    /\ Still(e)

\* C17: a Dynamic body without SleepingDisabled whose speeds stay strictly
\* below positive thresholds, with DeltaTime > 0, eventually carries Sleeping.
C17_StillBodyEventuallySleeps ==
    \A e \in Entity : ([]StaysStill(e)) => <>sleeping[e]

\* asleep after three still runs
C17_Witness ==
    /\ pc = "activate_sleeping"
    /\ dt > 0
    /\ sleeping[2]
    /\ timeSleeping[2] = 3 * dt
    /\ sleep_threshold.linear > 0 /\ sleep_threshold.angular > 0

\* ---------------------------------------------------------------- sync_transforms
SyncStep == ~syncRan /\ syncRan'

\* C11: a run of sync_transforms leaves every body, whatever its body type and
\* whether or not it is Sleeping or SleepingDisabled, with a planar translation
\* that is the Transform-precision value nearest to (Pos.x, Pos.y), a zero third
\* coordinate, and the rotation by Rot about the out-of-plane axis: no rotation
\* for Rot = 0, equal positive z and w parts for a quarter turn.
C11_SyncOverwritesEveryBody ==
    [][SyncStep =>
        \A e \in Entity :
            /\ transform'[e].translation[3] = 0
            /\ \A i \in {1, 2} :
                /\ transform'[e].translation[i] % 2 = 0
                /\ Abs(transform'[e].translation[i] - pos[e][i]) <= 1
            /\ transform'[e].rotation[1] = 0
            /\ transform'[e].rotation[2] = 0
            /\ rot[e] = 0 => transform'[e].rotation = TransformIDENTITY.rotation
            /\ rot[e] = 90 =>
                /\ transform'[e].rotation[3] = transform'[e].rotation[4]
                /\ transform'[e].rotation[3] > 0
    ]_vars

\* a sleeping body and a SleepingDisabled body, both moved away from the origin
\* and both synchronised in this run
C11_Witness ==
    /\ syncRan
    /\ sleeping[2]
    /\ pos[2] = <<3, -1>> /\ rot[2] = 90
    /\ transform[2].translation = <<4, 0, 0>>
    /\ transform[2].rotation = <<0, 0, 8, 8>>
    /\ sleepingDisabled[1]
    /\ pos[1] = <<6, 8>>
    /\ transform[1].translation = <<6, 8, 0>>

\* C12: sync_transforms is idempotent: running it on the transforms it has just
\* produced, with Pos and Rot as they are, gives the same transforms; and a run
\* that finds every transform already equal to what it would write changes none.
C12_SyncIdempotent ==
    [][SyncStep =>
        /\ \A e \in Entity :
            SyncedTransform(transform'[e], pos'[e], rot'[e]) = transform'[e]
        /\ (\A e \in Entity : SyncedTransform(transform[e], pos[e], rot[e]) = transform[e])
            => transform' = transform
    ]_vars

\* the second of two runs with no write between them, on a body away from the
\* origin
C12_Witness ==
    /\ syncRan
    /\ writes = 0
    /\ pos[2] = <<6, 8>> /\ rot[2] = 90
    /\ transform[2] = [TransformIDENTITY EXCEPT !.translation = <<6, 8, 0>>,
                                                !.rotation = <<0, 0, 8, 8>>]

\* C19: sync_transforms and the sleep sub-steps do not interfere.  The sync
\* step changes nothing but the transforms; no sleep sub-step, nor the
\* application of their commands, changes Pos, Rot or a transform; and wherever
\* in the run the sync step came, the run ends with every transform equal to
\* the conversion of the body's Pos and Rot.
C19_SyncAndSleepDoNotInterfere ==
    [][ /\ SyncStep =>
            UNCHANGED <<config, linVel, angVel, timeSleeping, sleeping, changed, gravityChanged,
                        commands, pc, pos, rot>>
        /\ pc' # pc =>
            /\ UNCHANGED <<pos, rot, transform>>
            /\ pc # "apply_buffers" => syncRan' = syncRan
        /\ StepOf("apply_buffers") =>
            \A e \in Entity :
                /\ transform'[e].translation = <<AsF32(pos'[e][1]), AsF32(pos'[e][2]), 0>>
                /\ transform'[e].rotation = AsQuatF32(QuaternionFromRot(rot'[e]))
                /\ transform'[e].scale = TransformIDENTITY.scale
    ]_vars

\* a run in which the sync step and the first two sleep sub-steps have acted on
\* the same body: it is at its new pose and its promotion is queued
C19_Witness ==
    /\ pc = "gravity_deactivate_sleeping"
    /\ syncRan
    /\ writes = 1
    /\ PromotionQueued(2)
    /\ pos[2] = <<6, 8>>
    /\ transform[2].translation = <<6, 8, 0>>
====
